---- MODULE Spec2Model ----
(***************************************************************************)
(* A model of the schema-aware code generation core of graphql_client_     *)
(* codegen: the required marks of input objects (inputs.rs, require), the  *)
(* emission of input-object structs (inputs.rs, to_rust / map_field and    *)
(* the recursion detection), the variables of an operation (operations.rs) *)
(* and the per-operation module (generated_module.rs).                     *)
(*                                                                         *)
(* Identifiers are sequences of ASCII byte values, so that sorting by name *)
(* (str::cmp) and the case conversion are computed on the bytes.           *)
(***************************************************************************)
EXTENDS Integers, Sequences, FiniteSets, TLC

VARIABLES
    inputs,       \* Schema.inputs: input name -> GqlInput (name, fields)
    iterOrder,    \* the iteration order of each GqlInput.fields HashMap
    is_required,  \* GqlInput.is_required, per input name
    visits,       \* how often the fields of an input were visited by require
    completed,    \* the type names a call of Schema::require has returned for
    definitions,  \* per operation: the parsed OperationDefinition it is built from
    operations,   \* per operation: its name, kind and selection, and its query text
    variables,    \* Operation.variables, per operation
    phase,        \* per operation: "idle", "running" or "done"
    stack,        \* per operation: the call stack of its running require calls
    emitted,      \* per input name: the outcome of GqlInput::to_rust
    expanded,     \* per operation: the outcome of Operation::expand_variables
    options,      \* GraphQLClientCodegenOptions
    generated     \* per mode: the outcome of GeneratedModule::to_token_stream

vars == <<inputs, iterOrder, is_required, visits, completed, definitions, operations,
          variables, phase, stack, emitted, expanded, options, generated>>

-----------------------------------------------------------------------------
(* Names *)

N_A == <<65>>
N_B == <<66>>
N_C == <<67>>
N_Int == <<73, 110, 116>>
N_ID == <<73, 68>>

\* field and variable names: "B", "aB", "as", "id"
F_B == <<66>>
F_aB == <<97, 66>>
F_as == <<97, 115>>
F_id == <<105, 100>>

UNDERSCORE == <<95>>

Root == <<>>

Ops == {"op1", "op2"}

Modes == {"Cli", "Derive"}

\* an outcome slot before its operation has run, and after a stack overflow
NotRun == [status |-> "none"]
Overflow == [status |-> "overflow"]

\* operation names: "Q" and "myQ"
O_Q == <<81>>
O_myQ == <<109, 121, 81>>

OpName(o) == IF o = "op1" THEN O_Q ELSE O_myQ

\* an Operation, without its variables, and the query text it was parsed from;
\* the selection is the list of the response fields
Operation(name, kind) ==
    [name |-> name, operation_type |-> kind, selection |-> <<F_id>>,
     query_string |-> <<123>> \o name \o <<125>>]

\* the parsed document of an operation that was built before the run starts
NoDefinition == [kind |-> "none"]

\* GraphQLClientCodegenOptions::new
NoOptions ==
    [input_derives |-> <<>>, response_derives |-> <<>>,
     module_visibility |-> "inherited", query_file |-> <<>>]

-----------------------------------------------------------------------------
(* FieldType: Named(name), Optional(inner), Vector(inner) *)

Named(n) == [kind |-> "Named", name |-> n]
Optional(t) == [kind |-> "Optional", inner |-> t]
Vector(t) == [kind |-> "Vector", inner |-> t]

RECURSIVE inner_name_str(_)
inner_name_str(t) ==
    IF t.kind = "Named" THEN t.name ELSE inner_name_str(t.inner)

RECURSIVE is_indirected(_)
is_indirected(t) ==
    CASE t.kind = "Vector" -> TRUE
      [] t.kind = "Named" -> FALSE
      [] t.kind = "Optional" -> is_indirected(t.inner)

GqlObjectField(n, t) == [name |-> n, type_ |-> t]

\* a GqlInput whose fields map holds the given fields, keyed by field name
GqlInput(n, fs) ==
    [name |-> n,
     fields |-> [f \in {x.name : x \in fs} |-> CHOOSE x \in fs : x.name = f]]

OrdersOf(S) ==
    {p \in [1..Cardinality(S) -> S] : \A x \in S : \E i \in DOMAIN p : p[i] = x}

\* every order in which HashMap::values may yield the fields of the inputs
IterOrders(ins) ==
    {o \in [DOMAIN ins -> UNION {OrdersOf(DOMAIN ins[n].fields) : n \in DOMAIN ins}] :
        \A n \in DOMAIN ins : o[n] \in OrdersOf(DOMAIN ins[n].fields)}

-----------------------------------------------------------------------------
(* require *)

\* the innermost type names of the fields of input n, in iteration order
FieldInnerNames(n) ==
    [i \in 1..Len(iterOrder[n]) |->
        inner_name_str(inputs[n].fields[iterOrder[n][i]].type_)]

\* GqlInput::require mutated: the mark is set but the fields are not visited
GqlInputRequire_NoFields(st, n) ==
    IF st.req[n]
    THEN [st EXCEPT !.comp = @ \cup {n}]
    ELSE [st EXCEPT !.req[n] = TRUE, !.vis[n] = @ + 1, !.comp = @ \cup {n}]

\* GqlInput::require mutated: no early return on an input already marked
GqlInputRequire_NoReturn(st, n) ==
    [st EXCEPT !.req[n] = TRUE, !.vis[n] = @ + 1,
               !.stk = <<[of |-> n, rest |-> FieldInnerNames(n)]>> \o @]

\* GqlInput::require, up to the first call it makes: on an input already
\* marked it returns; otherwise it sets the mark and starts on its fields
GqlInputRequire(st, n) ==
    IF st.req[n]
    THEN [st EXCEPT !.comp = @ \cup {n}]
    ELSE [st EXCEPT !.req[n] = TRUE, !.vis[n] = @ + 1,
                    !.stk = <<[of |-> n, rest |-> FieldInnerNames(n)]>> \o @]

\* Schema::require: only an input object is marked through GqlInput::require
SchemaRequire(st, n) ==
    IF n \in DOMAIN inputs
    THEN GqlInputRequire(st, n)
    ELSE [st EXCEPT !.comp = @ \cup {n}]

\* RequireStep mutated: the mark is cleared when the call on an input returns
RequireStep_ClearOnReturn(st) ==
    LET top == Head(st.stk) IN
    IF top.rest = <<>>
    THEN [st EXCEPT !.stk = Tail(@),
                    !.req = IF top.of = Root THEN @ ELSE [@ EXCEPT ![top.of] = FALSE],
                    !.comp = IF top.of = Root THEN @ ELSE @ \cup {top.of}]
    ELSE SchemaRequire(
            [st EXCEPT !.stk = <<[top EXCEPT !.rest = Tail(@)]>> \o Tail(@)],
            Head(top.rest))

\* one step of the running calls: the innermost loop calls Schema::require on
\* its next name, or has no name left and returns to its caller
RequireStep(st) ==
    LET top == Head(st.stk) IN
    IF top.rest = <<>>
    THEN [st EXCEPT !.stk = Tail(@),
                    !.comp = IF top.of = Root THEN @ ELSE @ \cup {top.of}]
    ELSE SchemaRequire(
            [st EXCEPT !.stk = <<[top EXCEPT !.rest = Tail(@)]>> \o Tail(@)],
            Head(top.rest))

\* compute_variable_requirements mutated: only the first variable is required
VariableInnerNames_FirstOnly(vs) ==
    IF vs = <<>> THEN <<>> ELSE <<inner_name_str(vs[1].ty)>>

\* the loop of compute_variable_requirements over the variables of an operation
VariableInnerNames(vs) == [i \in 1..Len(vs) |-> inner_name_str(vs[i].ty)]

ReqState(stk) ==
    [req |-> is_required, vis |-> visits, comp |-> completed, stk |-> stk]

-----------------------------------------------------------------------------
(* The require specification: operations compute their variable           *)
(* requirements against one schema, their marking steps interleaved.      *)

MaxVars == 2

Variable(n, t) == [name |-> n, ty |-> t, default |-> FALSE]

ReqTargets == {N_A, N_B, N_C, N_Int}

\* each field slot has its own shape and any target
ReqSchemas ==
    {[n \in {N_A, N_B, N_C} |->
        CASE n = N_A -> GqlInput(N_A, {GqlObjectField(F_B, Named(ta)),
                                       GqlObjectField(F_aB, Optional(Vector(Named(ta2))))})
          [] n = N_B -> GqlInput(N_B, {GqlObjectField(F_as, Optional(Named(tb)))})
          [] n = N_C -> GqlInput(N_C, {GqlObjectField(F_id, Vector(Optional(Named(tc))))})] :
      ta \in ReqTargets, ta2 \in ReqTargets, tb \in ReqTargets, tc \in ReqTargets}

\* the variable types of the two operations
ReqVarTypes(o) ==
    IF o = "op1" THEN {Named(N_A), Optional(Vector(Named(N_B)))}
    ELSE {Optional(Named(N_Int)), Vector(Named(N_C))}

VarNames == <<F_id, F_aB, F_as>>

VarLists(types, max) ==
    UNION {{[i \in 1..k |-> Variable(VarNames[i], ts[i])] : ts \in [1..k -> types]} :
            k \in 0..max}

InitReq ==
    /\ inputs \in ReqSchemas
    /\ iterOrder \in IterOrders(inputs)
    /\ is_required = [n \in DOMAIN inputs |-> FALSE]
    /\ visits = [n \in DOMAIN inputs |-> 0]
    /\ completed = {}
    /\ variables \in {v \in [Ops -> VarLists(ReqVarTypes("op1"), MaxVars)
                                      \cup VarLists(ReqVarTypes("op2"), 1)] :
                        /\ v["op1"] \in VarLists(ReqVarTypes("op1"), MaxVars)
                        /\ v["op2"] \in VarLists(ReqVarTypes("op2"), 1)}
    /\ definitions = [o \in Ops |-> NoDefinition]
    /\ operations = [o \in Ops |-> Operation(OpName(o), "Query")]
    /\ phase = [o \in Ops |-> "idle"]
    /\ stack = [o \in Ops |-> <<>>]
    /\ emitted = [n \in DOMAIN inputs |-> NotRun]
    /\ expanded = [o \in Ops |-> NotRun]
    /\ options = NoOptions
    /\ generated = [m \in Modes |-> NotRun]

\* compute_variable_requirements is entered
StartRequirements(o) ==
    /\ phase[o] = "idle"
    /\ phase' = [phase EXCEPT ![o] = "running"]
    /\ stack' = [stack EXCEPT ![o] =
                    <<[of |-> Root, rest |-> VariableInnerNames(variables[o])]>>]
    /\ UNCHANGED <<inputs, iterOrder, is_required, visits, completed, definitions, operations,
                   variables, emitted, expanded, options, generated>>

\* the next call or return of the require calls of operation o
RequireNext(o) ==
    /\ phase[o] = "running"
    /\ LET st == RequireStep(ReqState(stack[o])) IN
        /\ is_required' = st.req
        /\ visits' = st.vis
        /\ completed' = st.comp
        /\ stack' = [stack EXCEPT ![o] = st.stk]
        /\ phase' = [phase EXCEPT ![o] = IF st.stk = <<>> THEN "done" ELSE "running"]
    /\ UNCHANGED <<inputs, iterOrder, definitions, operations, variables, emitted, expanded, options,
                   generated>>

NextReq == \E o \in Ops : StartRequirements(o) \/ RequireNext(o)

SpecReq == InitReq /\ [][NextReq]_vars

Quiescent == \A o \in Ops : phase[o] # "running"

Marked == {n \in DOMAIN inputs : is_required[n]}

\* the input objects named as the innermost type of a field of input n
FieldInputs(n) ==
    {inner_name_str(inputs[n].fields[f].type_) : f \in DOMAIN inputs[n].fields}
        \cap DOMAIN inputs

RECURSIVE Closure(_)
Closure(S) ==
    LET T == S \cup UNION {FieldInputs(n) : n \in S}
    IN  IF T = S THEN S ELSE Closure(T)

\* the input objects named by the variables of the operations that are done
DoneRoots ==
    UNION {{inner_name_str(variables[o][i].ty) : i \in DOMAIN variables[o]} :
            o \in {p \in Ops : phase[p] = "done"}} \cap DOMAIN inputs

\* C1: when no require call is running, every input object named as the
\* innermost type of a field (bare, optional or list) of a marked input
\* object is marked too
C1_ReachabilityClosure ==
    Quiescent => \A n \in Marked : FieldInputs(n) \subseteq Marked

\* A is required by a variable, reaches B through an optional list field and
\* B reaches C through an optional field; all calls have returned
C1_Witness ==
    /\ \A o \in Ops : phase[o] = "done"
    /\ variables["op1"] # <<>> /\ variables["op1"][1].ty = Named(N_A)
    /\ variables["op2"] = <<>>
    /\ inputs[N_A].fields[F_aB].type_ = Optional(Vector(Named(N_B)))
    /\ inputs[N_A].fields[F_B].type_ = Named(N_Int)
    /\ inputs[N_B].fields[F_as].type_ = Optional(Named(N_C))
    /\ Marked = {N_A, N_B, N_C}

\* C4: whatever the order and interleaving of the marking steps, once the
\* running operations are done the marked input objects are the union of the
\* closures of the variable types of the operations that ran
C4_OrderIndependence ==
    Quiescent => Marked = Closure(DoneRoots)

\* both operations ran; their closures overlap in C
C4_Witness ==
    /\ \A o \in Ops : phase[o] = "done"
    /\ variables["op1"] # <<>> /\ variables["op1"][1].ty = Named(N_A)
    /\ variables["op2"] # <<>> /\ variables["op2"][1].ty = Vector(Named(N_C))
    /\ N_C \in FieldInputs(N_A)
    /\ N_B \in FieldInputs(N_C)
    /\ Marked = {N_A, N_B, N_C}

IsCall(o) == phase[o] = "running" /\ stack[o] # <<>> /\ Head(stack[o]).rest # <<>>

Callee(o) == Head(Head(stack[o]).rest)

\* C6: a call of require on a type name for which an earlier call has returned
\* changes no mark and does not visit the fields of the input object
C6_Idempotence ==
    [][\A o \in Ops :
          (IsCall(o) /\ stack'[o] # stack[o] /\ Callee(o) \in completed)
              => /\ is_required' = is_required
                 /\ visits' = visits
                 /\ Len(stack'[o]) = Len(stack[o])]_vars

\* require was called on A twice by the first operation, and both returned
C6_Witness ==
    /\ phase["op1"] = "done" /\ phase["op2"] = "idle"
    /\ Len(variables["op1"]) = 2
    /\ \A i \in 1..2 : variables["op1"][i].ty = Named(N_A)
    /\ visits[N_A] = 1

-----------------------------------------------------------------------------
(* Names in the generated code *)

IsUpper(c) == c >= 65 /\ c <= 90
IsLower(c) == c >= 97 /\ c <= 122
IsAlnum(c) == IsUpper(c) \/ IsLower(c) \/ (c >= 48 /\ c <= 57)
ToLower(c) == IF IsUpper(c) THEN c + 32 ELSE c

\* heck's to_snake_case: words are cut at non-alphanumeric bytes, before an
\* upper case byte that follows a lower case one and before the last upper
\* case byte of a run that a lower case byte follows; they are lower-cased
\* and joined by an underscore
RECURSIVE SnakeFrom(_, _, _, _)
SnakeFrom(s, i, out, pending) ==
    IF i > Len(s) THEN out
    ELSE LET c == s[i] IN
         IF ~IsAlnum(c) THEN SnakeFrom(s, i + 1, out, TRUE)
         ELSE LET cut == \/ pending
                         \/ IsUpper(c) /\ i > 1 /\ IsLower(s[i - 1])
                         \/ /\ IsUpper(c) /\ i > 1 /\ IsUpper(s[i - 1])
                            /\ i < Len(s) /\ IsLower(s[i + 1])
              IN  SnakeFrom(s, i + 1,
                            out \o (IF cut /\ out # <<>> THEN UNDERSCORE ELSE <<>>)
                                \o <<ToLower(c)>>,
                            FALSE)

to_snake_case(s) == SnakeFrom(s, 1, <<>>, FALSE)

\* the reserved words of the target language among the short names
Keywords == {<<97, 115>>, <<102, 110>>, <<105, 102>>, <<105, 110>>}

\* shared::keyword_replace: a reserved word gets an underscore appended
keyword_replace(s) == IF s \in Keywords THEN s \o UNDERSCORE ELSE s

\* shared::field_rename_annotation: the wire name, when the emitted name differs
field_rename_annotation(name, rust_name) ==
    IF name # rust_name THEN name ELSE <<>>

\* str::cmp, on the bytes
RECURSIVE StrLess(_, _)
StrLess(a, b) ==
    IF b = <<>> THEN FALSE
    ELSE IF a = <<>> THEN TRUE
    ELSE IF Head(a) # Head(b) THEN Head(a) < Head(b)
    ELSE StrLess(Tail(a), Tail(b))

RECURSIVE InsertByName(_, _)
InsertByName(x, s) ==
    IF s = <<>> THEN <<x>>
    ELSE IF StrLess(x, Head(s)) THEN <<x>> \o s
    ELSE <<Head(s)>> \o InsertByName(x, Tail(s))

\* sort_unstable_by(|a, b| a.name.cmp(&b.name)) mutated: no sort
SortByName_Unsorted(s) == s

\* sort_unstable_by(|a, b| a.name.cmp(&b.name)), on the names of the fields
RECURSIVE SortByName(_)
SortByName(s) ==
    IF s = <<>> THEN <<>> ELSE InsertByName(Head(s), SortByName(Tail(s)))

\* FieldType::to_rust: the target type, its wrappers outermost first
RECURSIVE FieldTypeToRust(_)
FieldTypeToRust(t) ==
    CASE t.kind = "Named" -> [wrap |-> <<>>, name |-> t.name]
      [] t.kind = "Optional" ->
            LET r == FieldTypeToRust(t.inner) IN [r EXCEPT !.wrap = <<"Option">> \o @]
      [] t.kind = "Vector" ->
            LET r == FieldTypeToRust(t.inner) IN [r EXCEPT !.wrap = <<"Vec">> \o @]

\* QueryContext::variables_derives: Serialize after the configured derives
variables_derives(input_derives) == input_derives \o <<"Serialize">>

-----------------------------------------------------------------------------
(* Recursion detection *)

\* A chain of nested calls of contains_type_without_indirection longer than
\* the number of input objects repeats an input with the same type_name, and
\* the call then recurs forever: the stack overflows.
RECURSIVE contains_type_without_indirection(_, _, _, _)
RECURSIVE AnyField(_, _, _, _, _)
AnyField(n, fs, type_name, ord, fuel) ==
    IF fs = <<>> THEN "false"
    ELSE LET field == inputs[n].fields[Head(fs)]
             field_type_name == inner_name_str(field.type_)
             r == IF is_indirected(field.type_) THEN "false"
                  ELSE IF field_type_name \in DOMAIN inputs
                       THEN IF inputs[field_type_name].name = type_name THEN "true"
                            ELSE contains_type_without_indirection(
                                    field_type_name, type_name, ord, fuel - 1)
                       ELSE "false"
         IN  IF r = "false" THEN AnyField(n, Tail(fs), type_name, ord, fuel) ELSE r

contains_type_without_indirection(n, type_name, ord, fuel) ==
    IF fuel = 0 THEN "overflow" ELSE AnyField(n, ord[n], type_name, ord, fuel)

is_recursive_without_indirection(n, ord) ==
    contains_type_without_indirection(n, inputs[n].name, ord, Cardinality(DOMAIN inputs))

-----------------------------------------------------------------------------
(* Emission of an input object *)

RECURSIVE RequireAll(_)
RequireAll(st) == IF st.stk = <<>> THEN st ELSE RequireAll(RequireStep(st))

\* a whole call of Schema::require, with the calls it makes
SchemaRequireAll(st, n) == RequireAll(SchemaRequire(st, n))

IsOptional(t) == t.kind = "Optional"

RustFieldName(name) == keyword_replace(to_snake_case(name))

\* lines 75-80 of map_field
FieldIsRecursive(field, ord) ==
    IF inner_name_str(field.type_) \in DOMAIN inputs
    THEN is_recursive_without_indirection(inner_name_str(field.type_), ord)
    ELSE "false"

\* lines 82-98 of map_field
FieldRustType(field, is_recursive) ==
    IF is_recursive
    THEN IF IsOptional(field.type_)
         THEN LET ty == FieldTypeToRust(field.type_.inner)
              IN  [ty EXCEPT !.wrap = <<"Option", "Box">> \o @]
         ELSE LET ty == FieldTypeToRust(field.type_)
              IN  [ty EXCEPT !.wrap = <<"Box">> \o @]
    ELSE FieldTypeToRust(field.type_)

\* map_field mutated: an optional field is pushed to required_fields as well
map_field_AllRequired(acc, field, ord) ==
    LET rec == FieldIsRecursive(field, ord) IN
    IF rec = "overflow" THEN [acc EXCEPT !.overflow = TRUE]
    ELSE
    LET ty == FieldRustType(field, rec = "true")
        name == RustFieldName(field.name)
    IN  [acc EXCEPT
            !.st = SchemaRequireAll(@, inner_name_str(field.type_)),
            !.fields = Append(@, [rename |-> field_rename_annotation(field.name, name),
                                  skip_none |-> IsOptional(field.type_),
                                  name |-> name, ty |-> ty]),
            !.required_fields = Append(@, [name |-> name, ty |-> ty]),
            !.struct_field_assignments =
                Append(@, [name |-> name,
                           value |-> IF IsOptional(field.type_) THEN "None" ELSE "param"])]

\* map_field: acc holds the marks, the fields emitted so far, required_fields
\* and struct_field_assignments
map_field(acc, field, ord) ==
    LET rec == FieldIsRecursive(field, ord) IN
    IF rec = "overflow" THEN [acc EXCEPT !.overflow = TRUE]
    ELSE
    LET ty == FieldRustType(field, rec = "true")
        name == RustFieldName(field.name)
    IN  [acc EXCEPT
            !.st = SchemaRequireAll(@, inner_name_str(field.type_)),
            !.fields = Append(@, [rename |-> field_rename_annotation(field.name, name),
                                  skip_none |-> IsOptional(field.type_),
                                  name |-> name, ty |-> ty]),
            !.required_fields =
                IF IsOptional(field.type_) THEN @
                ELSE Append(@, [name |-> name, ty |-> ty]),
            !.struct_field_assignments =
                Append(@, [name |-> name,
                           value |-> IF IsOptional(field.type_) THEN "None" ELSE "param"])]

\* the loop of to_rust over the sorted fields
RECURSIVE MapFields(_, _, _, _)
MapFields(n, fs, ord, acc) ==
    IF fs = <<>> \/ acc.overflow THEN acc
    ELSE MapFields(n, Tail(fs), ord, map_field(acc, inputs[n].fields[Head(fs)], ord))

\* to_rust mutated: the mark of the emitted input object is cleared
to_rust_ClearsMark(n, ord, st) ==
    LET acc == MapFields(n, SortByName(ord[n]), ord,
                         [st |-> st, overflow |-> FALSE, fields |-> <<>>,
                          required_fields |-> <<>>, struct_field_assignments |-> <<>>])
    IN  [st |-> [acc.st EXCEPT !.req[n] = FALSE],
         unit |-> IF acc.overflow THEN Overflow
                  ELSE [status |-> "ok",
                        derives |-> variables_derives(options.input_derives),
                        name |-> keyword_replace(inputs[n].name),
                        fields |-> acc.fields,
                        required_fields |-> acc.required_fields,
                        struct_field_assignments |-> acc.struct_field_assignments]]

\* GqlInput::to_rust under the iteration order ord, from the marks st: the
\* emitted struct with its constructor, or a stack overflow, and the marks
to_rust(n, ord, st) ==
    LET acc == MapFields(n, SortByName(ord[n]), ord,
                         [st |-> st, overflow |-> FALSE, fields |-> <<>>,
                          required_fields |-> <<>>, struct_field_assignments |-> <<>>])
    IN  [st |-> acc.st,
         unit |-> IF acc.overflow THEN Overflow
                  ELSE [status |-> "ok",
                        derives |-> variables_derives(options.input_derives),
                        name |-> keyword_replace(inputs[n].name),
                        fields |-> acc.fields,
                        required_fields |-> acc.required_fields,
                        struct_field_assignments |-> acc.struct_field_assignments]]

-----------------------------------------------------------------------------
(* The variables of an operation *)

\* Variable::generate_default_value_constructor: a function for a variable
\* that declares a default value, nothing for one that does not
generate_default_value_constructor(variable) ==
    IF variable.default
    THEN [kind |-> "default_fn", var |-> variable.name,
          ty |-> FieldTypeToRust(variable.ty)]
    ELSE [kind |-> "empty", var |-> variable.name, ty |-> FieldTypeToRust(variable.ty)]

\* variable_fields mutated: the optional variables are left out
variable_fields_RequiredOnly(vs) ==
    LET req == SelectSeq(vs, LAMBDA v : ~IsOptional(v.ty)) IN
    [i \in 1..Len(req) |->
        LET name == RustFieldName(req[i].name) IN
        [rename |-> field_rename_annotation(req[i].name, name),
         skip_none |-> FALSE, name |-> name, ty |-> FieldTypeToRust(req[i].ty)]]

\* Operation::variable_fields: one field per variable, in declaration order
variable_fields(vs) ==
    [i \in 1..Len(vs) |->
        LET name == RustFieldName(vs[i].name) IN
        [rename |-> field_rename_annotation(vs[i].name, name),
         skip_none |-> IsOptional(vs[i].ty),
         name |-> name, ty |-> FieldTypeToRust(vs[i].ty)]]

\* Operation::expand_variables: (variables_derives, fields, default_constructors)
expand_variables(vs, input_derives) ==
    IF vs = <<>>
    THEN [status |-> "ok", derives |-> variables_derives(input_derives),
          fields |-> <<>>, default_constructors |-> <<>>]
    ELSE [status |-> "ok", derives |-> variables_derives(input_derives),
          fields |-> variable_fields(vs),
          default_constructors |->
              [i \in 1..Len(vs) |-> generate_default_value_constructor(vs[i])]]

-----------------------------------------------------------------------------
(* The emission specification: one generation run over a schema: the       *)
(* variable requirements of an operation, the emission of input objects    *)
(* and the expansion of the variables, in any order.                       *)

EmitTargets == {N_A, N_B, N_Int}

\* A has a field that is not a list and a field of any shape, B has one field
EmitSchemas ==
    {[n \in {N_A, N_B} |->
        IF n = N_A THEN GqlInput(N_A, {GqlObjectField(F_B, ta), GqlObjectField(F_aB, ta2)})
        ELSE GqlInput(N_B, {GqlObjectField(F_as, tb)})] :
      ta \in {Named(t) : t \in EmitTargets} \cup {Optional(Named(t)) : t \in EmitTargets},
      ta2 \in {Named(t) : t \in EmitTargets} \cup {Optional(Named(t)) : t \in EmitTargets}
                \cup {Vector(Named(t)) : t \in EmitTargets}
                \cup {Optional(Vector(Optional(Named(t)))) : t \in EmitTargets},
      tb \in {Named(t) : t \in EmitTargets} \cup {Optional(Named(t)) : t \in EmitTargets}
                \cup {Vector(Named(t)) : t \in EmitTargets}}

EmitVarTypes == {Named(N_A), Optional(Named(N_B))}

InitEmit ==
    /\ inputs \in EmitSchemas
    /\ iterOrder \in IterOrders(inputs)
    /\ is_required = [n \in DOMAIN inputs |-> FALSE]
    /\ visits = [n \in DOMAIN inputs |-> 0]
    /\ completed = {}
    /\ \E vs \in VarLists(EmitVarTypes, 1) : variables = [o \in Ops |-> IF o = "op1" THEN vs ELSE <<>>]
    /\ definitions = [o \in Ops |-> NoDefinition]
    /\ operations = [o \in Ops |-> Operation(OpName(o), "Query")]
    /\ phase = [o \in Ops |-> "idle"]
    /\ stack = [o \in Ops |-> <<>>]
    /\ emitted = [n \in DOMAIN inputs |-> NotRun]
    /\ expanded = [o \in Ops |-> NotRun]
    /\ options = [NoOptions EXCEPT !.input_derives = <<"Clone">>]
    /\ generated = [m \in Modes |-> NotRun]

\* a stack overflow has ended the run
Crashed == \E n \in DOMAIN emitted : emitted[n] = Overflow

\* Operation::compute_variable_requirements, with the require calls it makes
ComputeVariableRequirements(o) ==
    /\ ~Crashed
    /\ phase[o] = "idle"
    /\ LET st == RequireAll(ReqState(
                    <<[of |-> Root, rest |-> VariableInnerNames(variables[o])]>>))
       IN  /\ is_required' = st.req
           /\ visits' = st.vis
           /\ completed' = st.comp
    /\ phase' = [phase EXCEPT ![o] = "done"]
    /\ UNCHANGED <<inputs, iterOrder, definitions, operations, variables, stack, emitted, expanded,
                   options, generated>>

\* GqlInput::to_rust on input n, with the require calls of map_field
ToRust(n) ==
    /\ ~Crashed
    /\ emitted[n] = NotRun
    /\ LET r == to_rust(n, iterOrder, ReqState(<<>>))
       IN  /\ emitted' = [emitted EXCEPT ![n] = r.unit]
           /\ is_required' = r.st.req
           /\ visits' = r.st.vis
           /\ completed' = r.st.comp
    /\ UNCHANGED <<inputs, iterOrder, definitions, operations, variables, phase, stack, expanded,
                   options, generated>>

\* Operation::expand_variables
ExpandVariables(o) ==
    /\ ~Crashed
    /\ expanded[o] = NotRun
    /\ expanded' = [expanded EXCEPT ![o] =
                        expand_variables(variables[o], options.input_derives)]
    /\ UNCHANGED <<inputs, iterOrder, is_required, visits, completed, definitions, operations,
                   variables, phase, stack, emitted, options, generated>>

NextEmit ==
    \/ ComputeVariableRequirements("op1")
    \/ \E n \in DOMAIN inputs : ToRust(n)
    \/ ExpandVariables("op1")

SpecEmit == InitEmit /\ [][NextEmit]_vars

\* the input objects that input n names in a field that is not indirected
DirectInputs(n) ==
    {inner_name_str(inputs[n].fields[f].type_) :
        f \in {g \in DOMAIN inputs[n].fields : ~is_indirected(inputs[n].fields[g].type_)}}
        \cap DOMAIN inputs

RECURSIVE DirectClosure(_)
DirectClosure(S) ==
    LET T == S \cup UNION {DirectInputs(n) : n \in S}
    IN  IF T = S THEN S ELSE DirectClosure(T)

\* the input objects reached from n through fields that are not indirected
DirectReach(n) == DirectClosure(DirectInputs(n))

\* the field of the emitted struct e for the schema field named f
EmittedField(e, f) == CHOOSE x \in {e.fields[i] : i \in DOMAIN e.fields} : x.name = RustFieldName(f)

HasEmittedField(e, f) == \E i \in DOMAIN e.fields : e.fields[i].name = RustFieldName(f)

Boxed(ty) == \E i \in DOMAIN ty.wrap : ty.wrap[i] = "Box"

\* the fields of T that lie on a cycle through T and are not indirected get a
\* heap box
BoxesCycleFields(T) ==
    \A f \in DOMAIN inputs[T].fields :
        LET t == inputs[T].fields[f].type_
            U == inner_name_str(t)
        IN  (~is_indirected(t) /\ U \in DOMAIN inputs /\ T \in DirectReach(U) \cup {U})
                => /\ HasEmittedField(emitted[T], f)
                   /\ EmittedField(emitted[T], f).ty =
                        [wrap |-> IF IsOptional(t) THEN <<"Option", "Box">> ELSE <<"Box">>,
                         name |-> U]

\* the fields of T that name T through a list get no box
NoBoxOnListFields(T) ==
    \A f \in DOMAIN inputs[T].fields :
        LET t == inputs[T].fields[f].type_
        IN  (is_indirected(t) /\ inner_name_str(t) = T)
                => /\ HasEmittedField(emitted[T], f)
                   /\ ~Boxed(EmittedField(emitted[T], f).ty)

\* C2: an input object T that reaches itself through fields that are not
\* indirected is emitted with a box (Box<T>, or Option<Box<T>> for an optional
\* field) on every such field of the cycle, and with no box on a field that
\* names T through a list or an optional list
C2_RecursionSafety ==
    \A T \in DOMAIN inputs :
        (emitted[T].status = "ok" /\ T \in DirectReach(T))
            => BoxesCycleFields(T) /\ NoBoxOnListFields(T)

\* C3: the recursion detection returns for every schema, so that no run of
\* to_rust ends in a stack overflow
C3_DetectionTerminates ==
    \A n \in DOMAIN inputs : emitted[n] # Overflow

\* C5: a required mark that is set stays set in every later state, whatever
\* runs: compute_variable_requirements, require, to_rust with map_field,
\* expand_variables
C5_MonotonicMark ==
    [][\A n \in DOMAIN inputs : is_required[n] => is_required'[n]]_vars

\* A was marked for a variable and was then emitted, requiring its field types
\* again, and the variables were expanded
C5_Witness ==
    /\ phase["op1"] = "done"
    /\ variables["op1"] # <<>> /\ variables["op1"][1].ty = Named(N_A)
    /\ inputs[N_A].fields[F_B].type_ = Named(N_A)
    /\ emitted[N_A].status = "ok"
    /\ expanded["op1"].status = "ok"
    /\ is_required[N_A]

\* the field names of input n in increasing byte order
SortedNames(n) ==
    CHOOSE s \in OrdersOf(DOMAIN inputs[n].fields) :
        \A i \in DOMAIN s : \A j \in DOMAIN s : i < j => StrLess(s[i], s[j])

\* C7: the constructor of an emitted input object takes exactly the fields
\* whose type is not Optional at the top, in the order of the sorted field
\* names, and assigns every field of the struct once, a required field from its
\* parameter and an optional field to None
C7_ConstructorPartition ==
    \A n \in DOMAIN inputs :
        emitted[n].status = "ok" =>
            LET e == emitted[n]
                s == SortedNames(n)
                req == SelectSeq(s, LAMBDA f : ~IsOptional(inputs[n].fields[f].type_))
            IN  /\ Len(e.fields) = Len(s)
                /\ \A i \in DOMAIN s : e.fields[i].name = RustFieldName(s[i])
                /\ Len(e.required_fields) = Len(req)
                /\ \A i \in DOMAIN req :
                        /\ e.required_fields[i].name = RustFieldName(req[i])
                        /\ e.required_fields[i].ty = EmittedField(e, req[i]).ty
                /\ Len(e.struct_field_assignments) = Len(s)
                /\ \A i \in DOMAIN s :
                        /\ e.struct_field_assignments[i].name = RustFieldName(s[i])
                        /\ e.struct_field_assignments[i].value =
                                IF IsOptional(inputs[n].fields[s[i]].type_)
                                THEN "None" ELSE "param"

\* A { B: Int!, aB: [A] } was emitted from a field map that yields aB first
C7_Witness ==
    /\ emitted[N_A].status = "ok"
    /\ iterOrder[N_A] = <<F_aB, F_B>>
    /\ inputs[N_A].fields[F_B].type_ = Named(N_Int)
    /\ inputs[N_A].fields[F_aB].type_ = Optional(Vector(Optional(Named(N_A))))
    /\ Len(emitted[N_A].required_fields) = 1

\* C8: the unit emitted for an input object is the one to_rust yields under
\* every iteration order of the field maps
C8_DeterministicOrder ==
    \A n \in DOMAIN inputs :
        emitted[n] # NotRun =>
            \A ord \in IterOrders(inputs) :
                to_rust(n, ord, ReqState(<<>>)).unit = emitted[n]

-----------------------------------------------------------------------------
(* The module of an operation *)

ToUpper(c) == IF IsLower(c) THEN c - 32 ELSE c

\* heck's to_camel_case: the words of to_snake_case, each with its first byte
\* in upper case and the others in lower case, joined without a separator
RECURSIVE CamelFrom(_, _, _, _)
CamelFrom(s, i, out, pending) ==
    IF i > Len(s) THEN out
    ELSE LET c == s[i] IN
         IF ~IsAlnum(c) THEN CamelFrom(s, i + 1, out, TRUE)
         ELSE LET cut == \/ pending
                         \/ i = 1
                         \/ IsUpper(c) /\ i > 1 /\ IsLower(s[i - 1])
                         \/ /\ IsUpper(c) /\ i > 1 /\ IsUpper(s[i - 1])
                            /\ i < Len(s) /\ IsLower(s[i + 1])
              IN  CamelFrom(s, i + 1,
                            out \o <<IF cut THEN ToUpper(c) ELSE ToLower(c)>>, FALSE)

to_camel_case(s) == CamelFrom(s, 1, <<>>, TRUE)

\* QueryContext::response_derives: Deserialize after the configured derives
response_derives(derives) == derives \o <<"Deserialize">>

\* codegen::response_for_query: the items inside the module: the variables
\* type of expand_variables and the response type of the selection
response_for_query(operation, vs, opts) ==
    LET ev == expand_variables(vs, opts.input_derives) IN
    <<[role |-> "Variables", derives |-> ev.derives, fields |-> ev.fields,
       fns |-> ev.default_constructors],
      [role |-> "ResponseData", derives |-> response_derives(opts.response_derives),
       fields |-> operation.selection, fns |-> <<>>]>>

\* GeneratedModule::build_impls
build_impls(operation, vs, opts) == response_for_query(operation, vs, opts)

NoItem == [role |-> "none"]

\* to_token_stream mutated: the struct of the Cli mode has no fields
to_token_stream_CliNoFields(mode, operation, vs, opts) ==
    LET module_name == to_snake_case(operation.name)
        operation_name_ident == to_camel_case(operation.name)
        impls == build_impls(operation, vs, opts)
        ev == expand_variables(vs, <<>>)
    IN  [status |-> "ok",
         module_visibility |-> opts.module_visibility,
         module_name |-> module_name,
         OPERATION_NAME |-> operation.name,
         QUERY |-> operation.query_string,
         query_include |-> opts.query_file,
         impls |->
            IF mode = "Cli"
            THEN impls \o
                 <<[role |-> "OperationStruct", ident |-> operation_name_ident,
                    derives |-> ev.derives, fields |-> <<>>],
                   [role |-> "GraphQLQueryCLI", for |-> operation_name_ident,
                    ResponseData |-> "ResponseData", variables |-> "self",
                    query |-> "QUERY", operation_name |-> "OPERATION_NAME"]>>
            ELSE impls,
         build_query_impl |->
            IF mode = "Cli" THEN NoItem
            ELSE [role |-> "GraphQLQuery", for |-> operation_name_ident,
                  Variables |-> IF Len(vs) = 0 THEN "()" ELSE "module::Variables",
                  ResponseData |-> "module::ResponseData",
                  query |-> "module::QUERY",
                  operation_name |-> "module::OPERATION_NAME"]]

\* GeneratedModule::to_token_stream: the module with its constants and items,
\* and the impl beside it. In the Cli mode the variables are expanded again,
\* under a QueryContext of its own
to_token_stream(mode, operation, vs, opts) ==
    LET module_name == to_snake_case(operation.name)
        operation_name_ident == to_camel_case(operation.name)
        impls == build_impls(operation, vs, opts)
        ev == expand_variables(vs, <<>>)
    IN  [status |-> "ok",
         module_visibility |-> opts.module_visibility,
         module_name |-> module_name,
         OPERATION_NAME |-> operation.name,
         QUERY |-> operation.query_string,
         query_include |-> opts.query_file,
         impls |->
            IF mode = "Cli"
            THEN impls \o
                 <<[role |-> "OperationStruct", ident |-> operation_name_ident,
                    derives |-> ev.derives, fields |-> ev.fields],
                   [role |-> "GraphQLQueryCLI", for |-> operation_name_ident,
                    ResponseData |-> "ResponseData", variables |-> "self",
                    query |-> "QUERY", operation_name |-> "OPERATION_NAME"]>>
            ELSE impls,
         build_query_impl |->
            IF mode = "Cli" THEN NoItem
            ELSE [role |-> "GraphQLQuery", for |-> operation_name_ident,
                  Variables |-> IF Len(vs) = 0 THEN "()" ELSE "module::Variables",
                  ResponseData |-> "module::ResponseData",
                  query |-> "module::QUERY",
                  operation_name |-> "module::OPERATION_NAME"]]

-----------------------------------------------------------------------------
(* The module specification: the variables of one operation are expanded   *)
(* and its module is assembled in the Cli and in the Derive mode, under    *)
(* any options.                                                            *)

ModVarTypes == {Named(N_ID), Optional(Named(N_Int)), Optional(Vector(Named(N_A)))}

\* the variable lists of up to max variables, each with or without a default
ModVarLists(max) ==
    UNION {{[i \in 1..k |-> [name |-> VarNames[i], ty |-> ts[i], default |-> ds[i]]] :
                ts \in [1..k -> ModVarTypes], ds \in [1..k -> BOOLEAN]} :
            k \in 0..max}

ModSchema ==
    [n \in {N_A} |-> GqlInput(N_A, {GqlObjectField(F_id, Named(N_ID))})]

\* a path of a query file: "q"
QueryPath == <<113>>

ModOptions ==
    [input_derives : {<<>>, <<"Clone">>}, response_derives : {<<>>, <<"Debug">>},
     module_visibility : {"inherited", "pub"}, query_file : {<<>>, QueryPath}]

InitMod ==
    /\ inputs = ModSchema
    /\ iterOrder \in IterOrders(inputs)
    /\ is_required = [n \in DOMAIN inputs |-> FALSE]
    /\ visits = [n \in DOMAIN inputs |-> 0]
    /\ completed = {}
    /\ definitions = [o \in Ops |-> NoDefinition]
    /\ \E name \in {O_Q, O_myQ} :
            operations = [o \in Ops |-> Operation(name, "Query")]
    /\ \E vs \in ModVarLists(MaxVars) :
            variables = [o \in Ops |-> IF o = "op1" THEN vs ELSE <<>>]
    /\ phase = [o \in Ops |-> "idle"]
    /\ stack = [o \in Ops |-> <<>>]
    /\ emitted = [n \in DOMAIN inputs |-> NotRun]
    /\ expanded = [o \in Ops |-> NotRun]
    /\ options \in ModOptions
    /\ generated = [m \in Modes |-> NotRun]

\* GeneratedModule::to_token_stream for operation o under options.mode = mode
ToTokenStream(o, mode) ==
    /\ generated[mode] = NotRun
    /\ generated' = [generated EXCEPT ![mode] =
                        to_token_stream(mode, operations[o], variables[o], options)]
    /\ UNCHANGED <<inputs, iterOrder, is_required, visits, completed, definitions, operations,
                   variables, phase, stack, emitted, expanded, options>>

NextMod ==
    \/ ExpandVariables("op1")
    \/ ToTokenStream("op1", "Cli")
    \/ ToTokenStream("op1", "Derive")

SpecMod == InitMod /\ [][NextMod]_vars

\* the variables of operation o that are not Optional at the top
RequiredVariables(o) == SelectSeq(variables[o], LAMBDA v : ~IsOptional(v.ty))

\* the field expand_variables emits for variable v
FieldOfVariable(e, i, v) ==
    /\ e.fields[i].name = RustFieldName(v.name)
    /\ e.fields[i].ty = FieldTypeToRust(v.ty)
    /\ e.fields[i].skip_none = IsOptional(v.ty)

EmptyWhenNoVariables(o) ==
    variables[o] = <<>> =>
        expanded[o].fields = <<>> /\ expanded[o].default_constructors = <<>>

OneFieldPerVariable(o) ==
    variables[o] # <<>> =>
        /\ Len(expanded[o].fields) = Len(variables[o])
        /\ \A i \in DOMAIN variables[o] : FieldOfVariable(expanded[o], i, variables[o][i])

\* expand_variables yields a constructor whose parameters are the variables
\* that are not optional
HasRequiredConstructor(o) ==
    \E i \in DOMAIN expanded[o].default_constructors :
        LET c == expanded[o].default_constructors[i] IN
        /\ c.kind = "new"
        /\ c.params = [j \in DOMAIN RequiredVariables(o) |->
                            RustFieldName(RequiredVariables(o)[j].name)]

\* C9, as stated: no variables give an empty variables type; variables give
\* one field each and a constructor that takes the variables that are not
\* optional
C9_VariableEmissionParity ==
    \A o \in Ops :
        expanded[o].status = "ok" =>
            /\ EmptyWhenNoVariables(o)
            /\ OneFieldPerVariable(o)
            /\ (variables[o] # <<>> => HasRequiredConstructor(o))

\* C9, amended: no variables give an empty variables type; variables give one
\* field each, in declaration order, and one default-value constructor entry
\* each, a function exactly for a variable that declares a default; no entry is
\* a constructor that takes variables
C9_FieldsAndDefaultConstructors ==
    \A o \in Ops :
        expanded[o].status = "ok" =>
            /\ EmptyWhenNoVariables(o)
            /\ OneFieldPerVariable(o)
            /\ variables[o] # <<>> =>
                /\ Len(expanded[o].default_constructors) = Len(variables[o])
                /\ \A i \in DOMAIN variables[o] :
                        LET c == expanded[o].default_constructors[i] IN
                        /\ c.var = variables[o][i].name
                        /\ c.kind = IF variables[o][i].default THEN "default_fn" ELSE "empty"

\* the variables { id: ID!, aB: Int } without defaults were expanded
C9_Witness ==
    /\ expanded["op1"].status = "ok"
    /\ Len(variables["op1"]) = 2
    /\ variables["op1"][1] = [name |-> F_id, ty |-> Named(N_ID), default |-> FALSE]
    /\ variables["op1"][2] = [name |-> F_aB, ty |-> Optional(Named(N_Int)), default |-> FALSE]
    /\ Len(expanded["op1"].fields) = 2

Items(g, role) == SelectSeq(g.impls, LAMBDA x : x.role = role)

FieldSet(fields) == {[name |-> fields[i].name, ty |-> fields[i].ty] : i \in DOMAIN fields}

\* the fields of the variables type the integration surface of g binds
VariablesFieldSet(g) ==
    IF g.build_query_impl.role = "GraphQLQuery"
    THEN IF g.build_query_impl.Variables = "()" THEN {}
         ELSE UNION {FieldSet(Items(g, "Variables")[i].fields) :
                        i \in DOMAIN Items(g, "Variables")}
    ELSE UNION {FieldSet(Items(g, "OperationStruct")[i].fields) :
                    i \in DOMAIN Items(g, "OperationStruct")}

ResponseFields(g) ==
    {Items(g, "ResponseData")[i].fields : i \in DOMAIN Items(g, "ResponseData")}

\* the generated unit without its integration surface
WithoutSurface(g) ==
    [g EXCEPT !.impls = SelectSeq(@, LAMBDA x : x.role \in {"Variables", "ResponseData"}),
              !.build_query_impl = NoItem]

\* the integration surface is the one of the mode
SurfaceOf(g, mode) ==
    IF mode = "Cli"
    THEN /\ Len(Items(g, "OperationStruct")) = 1
         /\ Len(Items(g, "GraphQLQueryCLI")) = 1
         /\ g.build_query_impl = NoItem
    ELSE /\ Len(Items(g, "OperationStruct")) = 0
         /\ Len(Items(g, "GraphQLQueryCLI")) = 0
         /\ g.build_query_impl.role = "GraphQLQuery"

\* C10: the Cli and the Derive module of an operation have the same
\* OPERATION_NAME and QUERY and response and variables types with the same
\* fields, and differ only in the integration surface, with or without
\* variables
C10_ModeEquivalence ==
    (generated["Cli"].status = "ok" /\ generated["Derive"].status = "ok") =>
        LET c == generated["Cli"]
            d == generated["Derive"]
        IN  /\ c.OPERATION_NAME = d.OPERATION_NAME
            /\ c.OPERATION_NAME = operations["op1"].name
            /\ c.QUERY = d.QUERY
            /\ c.QUERY = operations["op1"].query_string
            /\ ResponseFields(c) = ResponseFields(d)
            /\ VariablesFieldSet(c) = VariablesFieldSet(d)
            /\ VariablesFieldSet(c) = FieldSet(variable_fields(variables["op1"]))
            /\ WithoutSurface(c) = WithoutSurface(d)
            /\ SurfaceOf(c, "Cli") /\ SurfaceOf(d, "Derive")

\* both modules of an operation with a required and an optional variable
C10_Witness ==
    /\ generated["Cli"].status = "ok" /\ generated["Derive"].status = "ok"
    /\ Len(variables["op1"]) = 2
    /\ variables["op1"][1].ty = Named(N_ID)
    /\ variables["op1"][2].ty = Optional(Named(N_Int))
    /\ operations["op1"].name = O_myQ

\* both modules of an operation without variables
C10_WitnessNoVariables ==
    /\ generated["Cli"].status = "ok" /\ generated["Derive"].status = "ok"
    /\ variables["op1"] = <<>>

----------------------------------------------------------------------------
\* Configuration threading (generated_module.rs 27-113, codegen_options.rs 62-98).

\* the one item of g's module with the given role
ItemOf(g, role) == Items(g, role)[1]

\* C11: the configured module visibility, input_derives and response_derives
\* are applied identically in both modes: both modules carry the configured
\* visibility and the same response derives, and the variables struct emitted
\* in Cli mode carries the same derive list as the Variables type emitted for
\* the same options in Derive mode.
C11_ConfigurationThreading ==
    (generated["Cli"].status = "ok" /\ generated["Derive"].status = "ok") =>
        LET cli == generated["Cli"]
            derive == generated["Derive"]
        IN  /\ cli.module_visibility = options.module_visibility
            /\ derive.module_visibility = options.module_visibility
            /\ ItemOf(cli, "ResponseData").derives
                   = ItemOf(derive, "ResponseData").derives
            /\ ItemOf(cli, "OperationStruct").derives
                   = ItemOf(derive, "Variables").derives

\* the visibility and the response derives alone are threaded identically
VisibilityAndResponseDerivesThreaded ==
    \A m \in Modes : generated[m].status = "ok" =>
        /\ generated[m].module_visibility = options.module_visibility
        /\ ItemOf(generated[m], "ResponseData").derives
               = response_derives(options.response_derives)

----------------------------------------------------------------------------
(* Operation construction (operations.rs 93-117): an Operation is built    *)
(* from one definition of a parsed query document.                         *)

\* graphql_parser::query::Type
NamedType(n) == [kind |-> "NamedType", name |-> n]
ListType(t) == [kind |-> "ListType", inner |-> t]
NonNullType(t) == [kind |-> "NonNullType", inner |-> t]

\* FieldType from a parsed type: everything is optional unless wrapped in
\* NonNullType
RECURSIVE from_query_type_inner(_, _)
from_query_type_inner(inner, non_null) ==
    CASE inner.kind = "ListType" ->
            LET f == Vector(from_query_type_inner(inner.inner, FALSE))
            IN  IF non_null THEN f ELSE Optional(f)
      [] inner.kind = "NamedType" ->
            IF non_null THEN Named(inner.name) ELSE Optional(Named(inner.name))
      [] inner.kind = "NonNullType" ->
            from_query_type_inner(inner.inner, TRUE)

\* graphql_parser::query::VariableDefinition; default_value says whether a
\* literal default is declared
VariableDefinition(name, var_type, default_value) ==
    [name |-> name, var_type |-> var_type, default_value |-> default_value]

\* From<&VariableDefinition> for Variable
VariableFrom(v) ==
    [name |-> v.name, ty |-> from_query_type_inner(v.var_type, FALSE),
     default |-> v.default_value]

\* graphql_parser::query::OperationDefinition: kind is one of "Query",
\* "Mutation", "Subscription", "SelectionSet"; an absent name is <<>>
OperationDefinition(kind, name, variable_definitions, selection_set) ==
    [kind |-> kind, name |-> name, variable_definitions |-> variable_definitions,
     selection_set |-> selection_set]

\* the outcome of a panic
Panicked(message) == [status |-> "panic", message |-> message]

IsPanic(x) == "status" \in DOMAIN x /\ x.status = "panic"

\* one arm of the match for a query, a mutation or a subscription
OperationArm(q, operation_type) ==
    IF q.name = <<>> THEN Panicked("unnamed operation")
    ELSE [status |-> "ok",
          operation |-> [Operation(q.name, operation_type)
                            EXCEPT !.selection = q.selection_set],
          variables |-> [i \in DOMAIN q.variable_definitions |->
                            VariableFrom(q.variable_definitions[i])]]

\* the construction with an absent name taken as the empty name
OperationFrom_UnnamedAccepted(definition) ==
    IF definition.kind = "SelectionSet" THEN Panicked("SELECTION_SET_AT_ROOT")
    ELSE [status |-> "ok",
          operation |-> [Operation(definition.name, definition.kind)
                            EXCEPT !.selection = definition.selection_set],
          variables |-> [i \in DOMAIN definition.variable_definitions |->
                            VariableFrom(definition.variable_definitions[i])]]

\* From<&OperationDefinition> for Operation
OperationFrom(definition) ==
    CASE definition.kind = "Query" -> OperationArm(definition, "Query")
      [] definition.kind = "Mutation" -> OperationArm(definition, "Mutation")
      [] definition.kind = "Subscription" -> OperationArm(definition, "Subscription")
      [] definition.kind = "SelectionSet" -> Panicked("SELECTION_SET_AT_ROOT")

\* the types variables are declared with
ParsedTypes ==
    {NonNullType(NamedType(N_ID)), NamedType(N_Int),
     ListType(NonNullType(NamedType(N_A))), NonNullType(ListType(NamedType(N_A)))}

VariableNames == {F_id, F_aB, F_as}

\* the lists of up to max variable definitions with distinct names, in any
\* order of declaration
VariableDefinitionLists(max) ==
    UNION {{[i \in 1..k |-> VariableDefinition(ns[i], ts[i], ds[i])] :
                ns \in {f \in [1..k -> VariableNames] :
                            \A i, j \in 1..k : f[i] = f[j] => i = j},
                ts \in [1..k -> ParsedTypes], ds \in [1..k -> BOOLEAN]} :
            k \in 0..max}

SelectionSets == {<<F_id>>, <<F_id, F_as>>}

\* the definitions a document can hold; a bare selection set has neither a
\* name nor variables
OperationDefinitions ==
    {OperationDefinition(kind, name, vds, sel) :
        kind \in {"Query", "Mutation", "Subscription"}, name \in {<<>>, O_Q, O_myQ},
        vds \in VariableDefinitionLists(MaxVars), sel \in SelectionSets}
    \cup {OperationDefinition("SelectionSet", <<>>, <<>>, sel) : sel \in SelectionSets}

InitOps ==
    /\ inputs = ModSchema
    /\ iterOrder \in IterOrders(inputs)
    /\ is_required = [n \in DOMAIN inputs |-> FALSE]
    /\ visits = [n \in DOMAIN inputs |-> 0]
    /\ completed = {}
    /\ \E d \in OperationDefinitions :
            definitions = [o \in Ops |-> IF o = "op1" THEN d
                            ELSE OperationDefinition("Query", O_myQ, <<>>, <<F_id>>)]
    /\ operations = [o \in Ops |-> NotRun]
    /\ variables = [o \in Ops |-> <<>>]
    /\ phase = [o \in Ops |-> "idle"]
    /\ stack = [o \in Ops |-> <<>>]
    /\ emitted = [n \in DOMAIN inputs |-> NotRun]
    /\ expanded = [o \in Ops |-> NotRun]
    /\ options = NoOptions
    /\ generated = [m \in Modes |-> NotRun]

\* a panic ends the run
Aborted == \E o \in Ops : IsPanic(operations[o])

\* Operation::from(&definition) for the definition of o
BuildOperation(o) ==
    /\ ~Aborted
    /\ operations[o] = NotRun
    /\ LET r == OperationFrom(definitions[o])
       IN  /\ operations' = [operations EXCEPT ![o] =
                                IF r.status = "ok" THEN r.operation ELSE r]
           /\ variables' = [variables EXCEPT ![o] =
                                IF r.status = "ok" THEN r.variables ELSE @]
    /\ UNCHANGED <<inputs, iterOrder, is_required, visits, completed, definitions,
                   phase, stack, emitted, expanded, options, generated>>

NextOps == \E o \in Ops : BuildOperation(o)

SpecOps == InitOps /\ [][NextOps]_vars

\* a named query, mutation or subscription
IsNamedOperation(d) ==
    d.kind \in {"Query", "Mutation", "Subscription"} /\ d.name # <<>>

\* C12: building an Operation from a parsed definition succeeds exactly for
\* named query, mutation and subscription definitions, and then yields the
\* name, the matching kind and the variables in declaration order; every
\* other definition, a bare selection set among them, ends in a panic and
\* yields neither an Operation nor variables.
C12_OperationConstruction ==
    \A o \in Ops : (definitions[o] # NoDefinition /\ operations[o] # NotRun) =>
        LET d == definitions[o]
        IN  IF IsNamedOperation(d)
            THEN /\ ~IsPanic(operations[o])
                 /\ operations[o].name = d.name
                 /\ operations[o].operation_type = d.kind
                 /\ Len(variables[o]) = Len(d.variable_definitions)
                 /\ \A i \in DOMAIN variables[o] :
                        variables[o][i].name = d.variable_definitions[i].name
            ELSE /\ IsPanic(operations[o])
                 /\ variables[o] = <<>>
                 /\ d.kind = "SelectionSet" =>
                        operations[o] = Panicked("SELECTION_SET_AT_ROOT")

\* a named mutation with two variables declared against the byte order of
\* their names was built
C12_Witness ==
    /\ definitions["op1"] # NoDefinition
    /\ definitions["op1"].kind = "Mutation"
    /\ operations["op1"] # NotRun /\ ~IsPanic(operations["op1"])
    /\ Len(variables["op1"]) = 2
    /\ variables["op1"][1].name = F_id /\ variables["op1"][2].name = F_aB

\* a bare selection set at the root ended the run
C12_WitnessSelectionSet ==
    /\ definitions["op1"] # NoDefinition
    /\ definitions["op1"].kind = "SelectionSet"
    /\ IsPanic(operations["op1"])

\* an unnamed query ended the run
C12_WitnessUnnamed ==
    /\ definitions["op1"] # NoDefinition
    /\ definitions["op1"].kind = "Query" /\ definitions["op1"].name = <<>>
    /\ IsPanic(operations["op1"])

----------------------------------------------------------------------------
(* Emission and the required set (inputs.rs 68-119, 24-32)                 *)

\* to_rust runs on input n in this step
EmitsNow(n) == emitted[n] = NotRun /\ emitted'[n] # NotRun

\* C13: when to_rust runs on an input object that a completed require call
\* has marked, the require calls inside map_field change no required mark
\* and visit no fields: the marked set was closed under the field types
\* before the emission and is the same after it.
C13_EmissionKeepsRequiredSet ==
    [][\A n \in DOMAIN inputs :
          (EmitsNow(n) /\ is_required[n] /\ n \in completed)
              => /\ is_required' = is_required
                 /\ visits' = visits
                 /\ \A m \in Marked : FieldInputs(m) \subseteq Marked]_vars

\* A was required by a variable, its field B names input B, and A was emitted
\* while B, marked with it, is not emitted yet
C13_Witness ==
    /\ phase["op1"] = "done"
    /\ variables["op1"] # <<>> /\ variables["op1"][1].ty = Named(N_A)
    /\ inputs[N_A].fields[F_B].type_ = Optional(Named(N_B))
    /\ inputs[N_B].fields[F_as].type_ = Vector(Named(N_A))
    /\ emitted[N_A] # NotRun /\ emitted[N_A].status = "ok"
    /\ emitted[N_B] = NotRun
    /\ Marked = {N_A, N_B}
    /\ visits[N_A] = 1 /\ visits[N_B] = 1

----------------------------------------------------------------------------
(* Termination of require (inputs.rs 24-32)                                *)

\* every schema of the require specification; the first operation has at
\* most one variable, the second none or a list of C
InitTerm ==
    /\ InitReq
    /\ Len(variables["op1"]) <= 1
    /\ variables["op2"] \in {<<>>, <<Variable(F_id, Vector(Named(N_C)))>>}

\* the program is sequential: a require call that has started keeps running
SpecTerm ==
    InitTerm /\ [][NextReq]_vars /\ \A o \in Ops : WF_vars(RequireNext(o))

\* C14: on every schema, the self-referential and mutually-referential ones
\* included, the require calls of an operation terminate, and the fields of
\* each input object are visited at most once over the whole run.
C14_RequireTerminates ==
    /\ [](\A n \in DOMAIN inputs : visits[n] <= 1)
    /\ \A o \in Ops : (phase[o] = "running") ~> (phase[o] = "done")

\* A { B: B, aB: [A] } and B { as: A }: require on A went through the cycle
\* A -> B -> A and the self-reference of A, and returned
C14_Witness ==
    /\ phase["op1"] = "done" /\ phase["op2"] = "idle"
    /\ variables["op1"] = <<Variable(F_id, Named(N_A))>>
    /\ inputs[N_A].fields[F_B].type_ = Named(N_B)
    /\ inputs[N_A].fields[F_aB].type_ = Optional(Vector(Named(N_A)))
    /\ inputs[N_B].fields[F_as].type_ = Optional(Named(N_A))
    /\ visits[N_A] = 1 /\ visits[N_B] = 1
    /\ {N_A, N_B} \subseteq completed

====
